---- MODULE Spec2Model ----
(***************************************************************************)
(* A model of app.py, the Hyderabad air-quality dashboard: load_data (the  *)
(* per-year CSV files read, tagged, concatenated, melted, dated and        *)
(* sorted), the st.cache_data store in front of it, and the page dispatch  *)
(* of one script run, with the AQI Category Analysis branch in full.       *)
(*                                                                         *)
(* A wide DataFrame is [columns |-> sequence of column names,              *)
(* rows |-> sequence of functions column -> value]; a long DataFrame (the  *)
(* melted table) is a sequence of records, each carrying its index label.  *)
(* A number d.f is the record [w |-> d, f |-> f] (f one decimal digit), so *)
(* that 50.5 is a value a cell can hold; an absent cell is NaN, an absent  *)
(* date is NaT.                                                            *)
(***************************************************************************)
EXTENDS Integers, Sequences, FiniteSets, TLC

VARIABLES files, cache, melted_df, selected_page, selected_category,
          filtered_df, chart_data, pc

vars == <<files, cache, melted_df, selected_page, selected_category,
          filtered_df, chart_data, pc>>

(***************************************************************************)
(* Values                                                                  *)
(***************************************************************************)
\* An absent numeric cell, and the decimal number w.f.
NaN == [nan |-> TRUE]
Num(w, f) == [w |-> w, f |-> f]
\* The empty Month cell: read_csv gives a null, which stays a null through
\* the string concatenation of the date text.
NA == "NaN"
\* The null Timestamp.
NaT == [nat |-> TRUE]
\* float("inf")
Inf == [inf |-> TRUE]
\* An exception in place of a value.
Raised == [raised |-> TRUE]
\* Data/hyd_air_quality_{year}.csv when it cannot be read.
Unreadable == [raised |-> TRUE]

\* years = range(2016, 2024): the model keeps the first NumYears of them.
FirstYear == 2016
NumYears == 2
years == [i \in 1..NumYears |-> FirstYear + i - 1]

YearSet == {years[i] : i \in DOMAIN years}

(***************************************************************************)
(* Sequence helpers                                                        *)
(***************************************************************************)
Range(s) == {s[i] : i \in DOMAIN s}

RECURSIVE Flatten(_)
Flatten(ss) == IF ss = <<>> THEN <<>> ELSE Head(ss) \o Flatten(Tail(ss))

(***************************************************************************)
(* load_data                                                               *)
(***************************************************************************)
\* df = pd.read_csv(file_path): the table stored for the year, or an error.
read_csv(fs, year) == fs[year]

\* df['Year'] = year: a new last column (or the overwritten one) in every row.
tag_year(df, year) ==
    [columns |-> IF "Year" \in Range(df.columns) THEN df.columns
                 ELSE Append(df.columns, "Year"),
     rows |-> [i \in DOMAIN df.rows |->
                 [c \in DOMAIN df.rows[i] \cup {"Year"} |->
                    IF c = "Year" THEN year ELSE df.rows[i][c]]]]

\* dfs[year] = df for year in years, in insertion order (dfs.values()).
read_all(fs) == [i \in DOMAIN years |-> tag_year(read_csv(fs, years[i]), years[i])]

\* The union of the frames' columns, in order of first appearance.
RECURSIVE union_columns(_, _)
union_columns(frames, acc) ==
    IF frames = <<>> THEN acc
    ELSE union_columns(Tail(frames),
             acc \o SelectSeq(Head(frames).columns, LAMBDA c : c \notin Range(acc)))

\* pd.concat(dfs.values(), ignore_index=True) with join='inner': only the
\* columns every frame has.
pd_concat_inner(frames) ==
    LET all == union_columns(frames, <<>>)
        cols == SelectSeq(all, LAMBDA c :
                    \A i \in DOMAIN frames : c \in Range(frames[i].columns))
    IN [columns |-> cols,
        rows |-> Flatten([i \in DOMAIN frames |->
                    [j \in DOMAIN frames[i].rows |->
                        [c \in Range(cols) |-> frames[i].rows[j][c]]]])]

\* pd.concat(dfs.values(), ignore_index=True): rows in frame order, the
\* columns united, a cell a frame lacks is NaN.
pd_concat(frames) ==
    LET cols == union_columns(frames, <<>>)
    IN [columns |-> cols,
        rows |-> Flatten([i \in DOMAIN frames |->
                    [j \in DOMAIN frames[i].rows |->
                        [c \in Range(cols) |->
                            IF c \in DOMAIN frames[i].rows[j]
                            THEN frames[i].rows[j][c] ELSE NaN]]])]

id_vars == <<"Month", "Year">>

\* pd.melt(combined_df, id_vars=['Month', 'Year'], var_name='Location',
\* value_name='AQI'): one block of rows per value column, in column order,
\* each block in row order; the index is 0, 1, 2, ...
pd_melt(df) ==
    LET value_vars == SelectSeq(df.columns, LAMBDA c : c \notin Range(id_vars))
        n == Len(df.rows)
    IN [k \in 1..(Len(value_vars) * n) |->
          LET var == value_vars[((k - 1) \div n) + 1]
              r == df.rows[((k - 1) % n) + 1]
          IN [index |-> k - 1, Month |-> r["Month"], Year |-> r["Year"],
              Location |-> var, AQI |-> r[var]]]

\* %b: the abbreviated month names, each letter in either case (the
\* format is matched without regard to case).
MonthAbbr ==
    << <<{"J", "j"}, {"A", "a"}, {"N", "n"}>>, <<{"F", "f"}, {"E", "e"}, {"B", "b"}>>,
       <<{"M", "m"}, {"A", "a"}, {"R", "r"}>>, <<{"A", "a"}, {"P", "p"}, {"R", "r"}>>,
       <<{"M", "m"}, {"A", "a"}, {"Y", "y"}>>, <<{"J", "j"}, {"U", "u"}, {"N", "n"}>>,
       <<{"J", "j"}, {"U", "u"}, {"L", "l"}>>, <<{"A", "a"}, {"U", "u"}, {"G", "g"}>>,
       <<{"S", "s"}, {"E", "e"}, {"P", "p"}>>, <<{"O", "o"}, {"C", "c"}, {"T", "t"}>>,
       <<{"N", "n"}, {"O", "o"}, {"V", "v"}>>, <<{"D", "d"}, {"E", "e"}, {"C", "c"}>> >>

\* The strings %b takes for month i.
month_spellings(i) ==
    {x \o y \o z : x \in MonthAbbr[i][1], y \in MonthAbbr[i][2], z \in MonthAbbr[i][3]}

\* One element of pd.to_datetime(Year.astype(str) + '-' + Month,
\* format='%Y-%b'): a null string gives NaT, a string that does not match
\* the format raises.
to_datetime(year, month) ==
    IF month = NA THEN NaT
    ELSE IF \E i \in DOMAIN MonthAbbr : month \in month_spellings(i)
         THEN [year |-> year,
               month |-> CHOOSE i \in DOMAIN MonthAbbr : month \in month_spellings(i)]
         ELSE Raised

\* melted_df['Date'] = pd.to_datetime(...) raises when any element does;
\* otherwise every row gets its Date.
date_raises(df) ==
    \E i \in DOMAIN df : to_datetime(df[i].Year, df[i].Month) = Raised

with_date(df) ==
    [i \in DOMAIN df |->
        [index |-> df[i].index, Month |-> df[i].Month, Year |-> df[i].Year,
         Location |-> df[i].Location, AQI |-> df[i].AQI,
         Date |-> to_datetime(df[i].Year, df[i].Month)]]

\* Timestamp order.
date_lt(a, b) == a.year < b.year \/ (a.year = b.year /\ a.month < b.month)

\* Every order a set of rows can stand in.
RECURSIVE orderings(_)
orderings(rows) ==
    IF rows = {} THEN {<<>>}
    ELSE UNION {{<<r>> \o rest : rest \in orderings(rows \ {r})} : r \in rows}

\* kind='quicksort' promises no order among equal keys: the rows come out
\* ascending by Date, the rows of one Date in whatever order the build's
\* sort leaves them.
RECURSIVE argsort(_)
argsort(rows) ==
    IF rows = {} THEN {<<>>}
    ELSE LET first == {r \in rows : \A q \in rows : ~date_lt(q.Date, r.Date)}
         IN {head \o rest : head \in orderings(first), rest \in argsort(rows \ first)}

\* The table left as it was: sort_values() called and its result dropped.
sort_values_none(df) == {df}

\* melted_df.sort_values('Date'): the tables the sort can return. Ascending,
\* na_position='last': the rows without a date follow in their original
\* order.
sort_values(df) ==
    {dated \o SelectSeq(df, LAMBDA r : r.Date = NaT) :
        dated \in argsort({df[i] : i \in {k \in DOMAIN df : df[k].Date # NaT}})}

\* load_data(): what the call can give. [raised |-> TRUE] when a file
\* cannot be read or a month does not parse, and a sorted table otherwise.
load_data(fs) ==
    IF \E i \in DOMAIN years : read_csv(fs, years[i]) = Unreadable
    THEN {[raised |-> TRUE, value |-> <<>>]}
    ELSE LET melted == pd_melt(pd_concat(read_all(fs)))
         IN IF date_raises(melted)
            THEN {[raised |-> TRUE, value |-> <<>>]}
            ELSE {[raised |-> FALSE, value |-> sorted] :
                     sorted \in sort_values(with_date(melted))}

(***************************************************************************)
(* The AQI Category Analysis branch                                        *)
(***************************************************************************)
CategoryPage == "AQI Category Analysis"

\* The sidebar radio's options, in order.
Pages == <<"Overview", "Annual Trends", "Seasonal Patterns",
           "Month-to-month Variations", "Location Comparison",
           "Pollution Hotspots", "Time Series", "Correlation Analysis",
           "AQI Distribution", "Yearly Average Trend", CategoryPage>>

\* list(aqi_categories.keys())
CategoryNames == <<"GOOD", "SATISFACTORY", "MODERATE", "POOR", "VERY POOR", "SEVERE">>

\* The table with SATISFACTORY starting where GOOD ends.
aqi_categories_shared_edge ==
    [c \in Range(CategoryNames) |->
        CASE c = "GOOD" -> <<Num(0, 0), Num(50, 0)>>
          [] c = "SATISFACTORY" -> <<Num(50, 0), Num(100, 0)>>
          [] c = "MODERATE" -> <<Num(100, 0), Num(200, 0)>>
          [] c = "POOR" -> <<Num(200, 0), Num(300, 0)>>
          [] c = "VERY POOR" -> <<Num(300, 0), Num(400, 0)>>
          [] c = "SEVERE" -> <<Num(400, 0), Inf>>]

aqi_categories ==
    [c \in Range(CategoryNames) |->
        CASE c = "GOOD" -> <<Num(0, 0), Num(50, 0)>>
          [] c = "SATISFACTORY" -> <<Num(51, 0), Num(100, 0)>>
          [] c = "MODERATE" -> <<Num(101, 0), Num(200, 0)>>
          [] c = "POOR" -> <<Num(201, 0), Num(300, 0)>>
          [] c = "VERY POOR" -> <<Num(301, 0), Num(400, 0)>>
          [] c = "SEVERE" -> <<Num(401, 0), Inf>>]

\* a <= b for two numbers.
num_le(a, b) == a.w < b.w \/ (a.w = b.w /\ a.f <= b.f)

\* melted_df["AQI"] >= lower_bound, for one cell: False on NaN.
aqi_ge(x, bound) == x # NaN /\ num_le(bound, x)

\* melted_df["AQI"] <= upper_bound, for one cell: False on NaN, True
\* against float("inf").
aqi_le(x, bound) ==
    x # NaN /\ (bound = Inf \/ num_le(x, bound))

\* The mask with its upper end open.
filter_band_open(df, bounds) ==
    SelectSeq(df, LAMBDA r : aqi_ge(r.AQI, bounds[1]) /\ aqi_le(r.AQI, bounds[2])
                              /\ r.AQI # bounds[2])

\* filtered_df = melted_df[(AQI >= lower_bound) & (AQI <= upper_bound)]:
\* the rows the mask keeps, in the table's order.
filter_band(df, bounds) ==
    SelectSeq(df, LAMBDA r : aqi_ge(r.AQI, bounds[1]) /\ aqi_le(r.AQI, bounds[2]))

\* filtered_df.groupby(["Location", "Year"]).size(): a count for every
\* (Location, Year) that has a row.
groupby_size(df) ==
    [p \in {<<df[i].Location, df[i].Year>> : i \in DOMAIN df} |->
        Cardinality({i \in DOMAIN df : df[i].Location = p[1] /\ df[i].Year = p[2]})]

\* A table of the pairs the counts have, none filled in.
unstack_none(counts, fill_value) == counts

\* .unstack(fill_value=0): Location rows by Year columns over the labels
\* the counts have, a missing combination filled in.
unstack(counts, fill_value) ==
    [p \in {q[1] : q \in DOMAIN counts} \X {q[2] : q \in DOMAIN counts} |->
        IF p \in DOMAIN counts THEN counts[p] ELSE fill_value]

\* The branch with the filter assigned back to melted_df.
category_analysis_inplace(df, category) ==
    LET filtered == filter_band(df, aqi_categories[category])
    IN [melted_df |-> filtered,
        filtered_df |-> filtered,
        chart_data |-> unstack(groupby_size(filtered), 0)]

\* The branch with the chart grouped from melted_df, not filtered_df.
category_analysis_chart_of_all(df, category) ==
    [melted_df |-> df,
     filtered_df |-> filter_band(df, aqi_categories[category]),
     chart_data |-> unstack(groupby_size(df), 0)]

\* The branch: the globals it leaves behind.
category_analysis(df, category) ==
    LET bounds == aqi_categories[category]
        filtered == filter_band(df, bounds)
    IN [melted_df |-> df,
        filtered_df |-> filtered,
        chart_data |-> unstack(groupby_size(filtered), 0)]

\* Every other branch builds its figure from melted_df and binds nothing
\* the model keeps.
chart_page(df, page) ==
    [melted_df |-> df, filtered_df |-> <<>>, chart_data |-> <<>>]

\* if selected_page == ... elif ...
page_dispatch(df, page, category) ==
    IF page = CategoryPage THEN category_analysis(df, category)
    ELSE chart_page(df, page)

(***************************************************************************)
(* Source files                                                            *)
(***************************************************************************)
Locations == {"A", "B"}
ColumnLists == {<<"A">>, <<"B">>, <<"A", "B">>}
MonthValues == {"Jan", "Jann", NA}
MonthLists ==
    {<<m>> : m \in MonthValues} \cup {<<"FEB", m>> : m \in MonthValues}
AQIValues == {Num(50, 0), Num(50, 5), Num(51, 0)}
PlainAQI == [c \in Locations |-> IF c = "A" THEN Num(40, 0) ELSE Num(120, 0)]

\* A CSV file: a Month column, then one column per location.
Table(locs, months, vals) ==
    [columns |-> <<"Month">> \o locs,
     rows |-> [i \in DOMAIN months |->
                 [c \in {"Month"} \cup Range(locs) |->
                    IF c = "Month" THEN months[i] ELSE vals[i][c]]]]

\* Files of every shape, 40 all along column A and 120 along column B; and
\* the file that cannot be read.
ShapeTables ==
    {Unreadable} \cup
    {Table(locs, months, [i \in DOMAIN months |-> [c \in Range(locs) |-> PlainAQI[c]]]) :
        locs \in ColumnLists, months \in MonthLists}

\* One-row files of both locations, with every value.
ValueTables ==
    {Table(<<"A", "B">>, <<"Jan">>, <<v>>) : v \in [Locations -> AQIValues]}

Sources == [YearSet -> ShapeTables] \cup [YearSet -> ValueTables]

(***************************************************************************)
(* The session                                                             *)
(***************************************************************************)
Init ==
    /\ files \in Sources
    /\ cache = [hit |-> FALSE, value |-> <<>>]
    /\ melted_df = <<>>
    /\ selected_page = "Overview"
    /\ selected_category = "GOOD"
    /\ filtered_df = <<>>
    /\ chart_data = <<>>
    /\ pc = "start"

\* @st.cache_data: the stored value when there is one, else what
\* load_data() gives.
cached_load ==
    IF cache.hit THEN {[raised |-> FALSE, value |-> cache.value]}
    ELSE load_data(files)

\* One run of the script, top to bottom, with the widgets at page and
\* category. An exception in load_data ends the run before any widget.
ScriptRun(page, category) ==
    \E loaded \in cached_load :
       /\ UNCHANGED files
       /\ selected_page' = page
       /\ selected_category' = category
       /\ IF loaded.raised
          THEN /\ pc' = "error"
               /\ UNCHANGED <<cache, melted_df, filtered_df, chart_data>>
          ELSE LET out == page_dispatch(loaded.value, page, category)
               IN /\ pc' = "ready"
                  /\ cache' = [hit |-> TRUE, value |-> loaded.value]
                  /\ melted_df' = out.melted_df
                  /\ filtered_df' = out.filtered_df
                  /\ chart_data' = out.chart_data

\* The session's first run: the radio and the selectbox at their first option.
FirstRun ==
    /\ pc = "start"
    /\ ScriptRun(Pages[1], CategoryNames[1])

\* The user picks a page; the selectbox, when drawn, is at its first option.
SelectPage ==
    /\ pc = "ready"
    /\ \E p \in Range(Pages) :
          /\ p # selected_page
          /\ ScriptRun(p, CategoryNames[1])

\* The user picks a category on the category page.
SelectCategory ==
    /\ pc = "ready"
    /\ selected_page = CategoryPage
    /\ \E c \in Range(CategoryNames) :
          /\ c # selected_category
          /\ ScriptRun(selected_page, c)

Next == FirstRun \/ SelectPage \/ SelectCategory

Spec == Init /\ [][Next]_vars

(***************************************************************************)
(* Properties.  The bands and the date order are stated here a second      *)
(* time, on plain integers, so that no property leans on the operator it   *)
(* is about.                                                               *)
(***************************************************************************)
Ready == pc = "ready"
OnCategoryPage == pc = "ready" /\ selected_page = CategoryPage

\* A number in tenths, a date in months.
Tenths(x) == 10 * x.w + x.f
MonthsSinceZero(d) == 12 * d.year + d.month

\* GOOD[0,50], SATISFACTORY[51,100], MODERATE[101,200], POOR[201,300],
\* VERY POOR[301,400], SEVERE[401,oo), closed at every finite end.
Within(x, c) ==
    /\ x # NaN
    /\ CASE c = "GOOD" -> 0 <= Tenths(x) /\ Tenths(x) <= 500
         [] c = "SATISFACTORY" -> 510 <= Tenths(x) /\ Tenths(x) <= 1000
         [] c = "MODERATE" -> 1010 <= Tenths(x) /\ Tenths(x) <= 2000
         [] c = "POOR" -> 2010 <= Tenths(x) /\ Tenths(x) <= 3000
         [] c = "VERY POOR" -> 3010 <= Tenths(x) /\ Tenths(x) <= 4000
         [] c = "SEVERE" -> 4010 <= Tenths(x)

PairsOf(df) == {<<df[i].Location, df[i].Year>> : i \in DOMAIN df}
CountOf(df, p) ==
    Cardinality({i \in DOMAIN df : df[i].Location = p[1] /\ df[i].Year = p[2]})

RECURSIVE SumOver(_, _)
SumOver(f, S) ==
    IF S = {} THEN 0
    ELSE LET p == CHOOSE q \in S : TRUE IN f[p] + SumOver(f, S \ {p})

\* The k-th smallest member of a set of positions.
NthOf(S, k) == CHOOSE i \in S : Cardinality({j \in S : j < i}) = k - 1

\* C1: in the collection load_data returns, every adjacent pair of rows has
\* Date[i] <= Date[i+1].  Two rows that both lack a date are let pass; a
\* dated row next to a row without a date is not in order.
C1_SortedByDate ==
    Ready =>
        \A i \in 1..(Len(melted_df) - 1) :
            \/ melted_df[i].Date = NaT /\ melted_df[i + 1].Date = NaT
            \/ /\ melted_df[i].Date # NaT
               /\ melted_df[i + 1].Date # NaT
               /\ MonthsSinceZero(melted_df[i].Date)
                     <= MonthsSinceZero(melted_df[i + 1].Date)

\* C2: on the category page the filtered list is exactly the rows of the
\* canonical collection, in its order, whose AQI is present and lies in the
\* selected band, both ends included.
C2_FilterIsBandSubsequence ==
    OnCategoryPage =>
        LET kept == {i \in DOMAIN melted_df : Within(melted_df[i].AQI, selected_category)}
        IN /\ Len(filtered_df) = Cardinality(kept)
           /\ \A k \in DOMAIN filtered_df : filtered_df[k] = melted_df[NthOf(kept, k)]

\* C2 happens: the MODERATE filter keeps some rows and drops both a row
\* with a present AQI of another band and a row with an absent AQI.
C2_Witness ==
    /\ OnCategoryPage
    /\ selected_category = "MODERATE"
    /\ filtered_df # <<>>
    /\ \E i \in DOMAIN melted_df : melted_df[i].AQI = NaN
    /\ \E i \in DOMAIN melted_df : melted_df[i].AQI = Num(40, 0)

\* The bands whose filter selects row i of the collection.
BandsSelecting(i) ==
    {c \in Range(CategoryNames) :
        filter_band(<<melted_df[i]>>, aqi_categories[c]) # <<>>}

\* C3, as claimed: every row with a present AQI is selected by the filter
\* of exactly one of the six bands.
C3_PresentAQIInExactlyOneBand ==
    Ready =>
        \A i \in DOMAIN melted_df :
            melted_df[i].AQI # NaN => Cardinality(BandsSelecting(i)) = 1

\* C3, amended: no row is selected by two bands; a row whose AQI is a whole
\* number from 0 up is selected by exactly one; a row whose AQI is absent
\* by none.
C3_WholeAQIInExactlyOneBand ==
    Ready =>
        \A i \in DOMAIN melted_df :
            /\ Cardinality(BandsSelecting(i)) <= 1
            /\ melted_df[i].AQI = NaN => BandsSelecting(i) = {}
            /\ (melted_df[i].AQI # NaN /\ melted_df[i].AQI.f = 0 /\ melted_df[i].AQI.w >= 0)
                  => Cardinality(BandsSelecting(i)) = 1

\* C3 happens: the collection holds the two whole values either side of a
\* band edge, each selected by its own band.
C3_Witness ==
    /\ Ready
    /\ \E i \in DOMAIN melted_df, j \in DOMAIN melted_df :
          /\ melted_df[i].AQI = Num(50, 0)
          /\ melted_df[j].AQI = Num(51, 0)
          /\ BandsSelecting(i) = {"GOOD"}
          /\ BandsSelecting(j) = {"SATISFACTORY"}

\* C4, as claimed: every (Location, Year) pair of the canonical collection
\* has a cell in the counting table, holding the number of its rows in the
\* filtered list (zero when there is none).
C4_EveryCanonicalPairCounted ==
    OnCategoryPage =>
        \A p \in PairsOf(melted_df) :
            p \in DOMAIN chart_data /\ chart_data[p] = CountOf(filtered_df, p)

\* C4, amended: the counting table has one cell for every Location of the
\* filtered list paired with every Year of the filtered list, and no other;
\* each cell holds the number of rows of the filtered list with that pair,
\* zero when there is none.
C4_CountsOverFilteredLabels ==
    OnCategoryPage =>
        /\ DOMAIN chart_data =
              {p[1] : p \in PairsOf(filtered_df)} \X {p[2] : p \in PairsOf(filtered_df)}
        /\ \A p \in DOMAIN chart_data : chart_data[p] = CountOf(filtered_df, p)

\* C4 happens: the table holds a filled-in zero.
C4_Witness ==
    /\ OnCategoryPage
    /\ \E p \in DOMAIN chart_data : chart_data[p] = 0

\* C5: a location that is a column of one year's file but not of another's
\* has, for that other year, one row per row of its file, month by month,
\* each with AQI absent; and no row's Location is anything but a location
\* column (Year and Month never are).
HasColumn(y, loc) == loc \in Range(files[y].columns)

C5_UnionOfColumns ==
    Ready =>
        /\ \A i \in DOMAIN melted_df : melted_df[i].Location \in Locations
        /\ \A y1 \in YearSet, y2 \in YearSet, loc \in Locations :
              (HasColumn(y1, loc) /\ ~HasColumn(y2, loc)) =>
                 /\ Cardinality({i \in DOMAIN melted_df :
                                    melted_df[i].Location = loc /\ melted_df[i].Year = y2})
                    = Len(files[y2].rows)
                 /\ \A m \in {files[y2].rows[j]["Month"] : j \in DOMAIN files[y2].rows} :
                       Cardinality({i \in DOMAIN melted_df :
                                       /\ melted_df[i].Location = loc
                                       /\ melted_df[i].Year = y2
                                       /\ melted_df[i].Month = m})
                       = Cardinality({j \in DOMAIN files[y2].rows :
                                       files[y2].rows[j]["Month"] = m})
                 /\ \A i \in DOMAIN melted_df :
                       (melted_df[i].Location = loc /\ melted_df[i].Year = y2)
                          => melted_df[i].AQI = NaN

\* C5 happens: a two-row file lacks a column another year's file has.
C5_Witness ==
    /\ Ready
    /\ \E y1 \in YearSet, y2 \in YearSet, loc \in Locations :
          HasColumn(y1, loc) /\ ~HasColumn(y2, loc) /\ Len(files[y2].rows) = 2

\* C6: when a file cannot be read, or some row's Month is not one of the
\* twelve abbreviations, no collection is produced: the run ends in the
\* error, nothing is cached and no view gets a table.
\* The twelve abbreviations, in any letter case.
RecognizedMonths == UNION {month_spellings(i) : i \in DOMAIN MonthAbbr}

BadSource ==
    \E y \in YearSet :
        IF files[y] = Unreadable THEN TRUE
        ELSE \E j \in DOMAIN files[y].rows :
                files[y].rows[j]["Month"] \notin RecognizedMonths

C6_AllOrNothing ==
    BadSource => (pc # "ready" /\ ~cache.hit /\ melted_df = <<>>)

\* C7, as claimed: two rows of equal Date stand in the order they had in
\* the melted table.
C7_StableSort ==
    Ready =>
        \A i \in DOMAIN melted_df, j \in DOMAIN melted_df :
            (i < j /\ melted_df[i].Date = melted_df[j].Date)
               => melted_df[i].index < melted_df[j].index

\* C7, amended: the returned collection holds the rows of the melted table,
\* each once, the dated rows in ascending Date and the rows without a date
\* after them in their melted order; rows of equal Date stand in no
\* promised order.
C7_SortedPermutationOfMelted ==
    Ready =>
        LET melted == with_date(pd_melt(pd_concat(read_all(files))))
        IN /\ Len(melted_df) = Len(melted)
           /\ \A i \in DOMAIN melted_df : melted_df[i] = melted[melted_df[i].index + 1]
           /\ \A i \in DOMAIN melted_df, j \in DOMAIN melted_df :
                 i < j =>
                    /\ melted_df[i].index # melted_df[j].index
                    /\ (melted_df[i].Date = NaT) =>
                          (melted_df[j].Date = NaT /\ melted_df[i].index < melted_df[j].index)
                    /\ (melted_df[i].Date # NaT /\ melted_df[j].Date # NaT) =>
                          MonthsSinceZero(melted_df[i].Date) <= MonthsSinceZero(melted_df[j].Date)

\* C7 happens: two rows of equal Date stand against their melted order,
\* in a table that the sort had to reorder.
C7_Witness ==
    /\ Ready
    /\ \E i \in DOMAIN melted_df, j \in DOMAIN melted_df :
          /\ i < j
          /\ melted_df[i].Date # NaT
          /\ melted_df[i].Date = melted_df[j].Date
          /\ melted_df[i].index > melted_df[j].index
    /\ \E i \in DOMAIN melted_df, j \in DOMAIN melted_df :
          /\ i < j
          /\ melted_df[i].Date # NaT
          /\ melted_df[j].Date # NaT
          /\ melted_df[i].Date # melted_df[j].Date
          /\ melted_df[i].index > melted_df[j].index

\* C8: once the collection is loaded, no page selection and no band
\* selection changes it, nor the cached copy: same rows, values and order.
C8_CanonicalUnchanged ==
    [][Ready => (melted_df' = melted_df /\ cache' = cache)]_vars

\* C8 happens: a band has been selected on the category page and its
\* filter keeps only part of a loaded collection.
C8_Witness ==
    /\ OnCategoryPage
    /\ selected_category # CategoryNames[1]
    /\ filtered_df # <<>>
    /\ Len(filtered_df) < Len(melted_df)

\* C9: the cells of the counting table add up to the length of the
\* filtered list.
C9_CountsSumToFiltered ==
    OnCategoryPage => SumOver(chart_data, DOMAIN chart_data) = Len(filtered_df)

\* C9 happens: a table of several cells, one of them counting two rows.
C9_Witness ==
    /\ OnCategoryPage
    /\ Cardinality(DOMAIN chart_data) >= 2
    /\ \E p \in DOMAIN chart_data : chart_data[p] = 2

====
